---- MODULE Spec2Model ----
(***************************************************************************)
(* A model of sync_reaper.py: one synchronisation pass over the configured *)
(* Locations (automatic root-file phase, REAPER.ini section-merge phase,   *)
(* interactive subfolder phase), and the ReaperIni section functions.      *)
(*                                                                         *)
(* Text is modelled as a sequence of tokens; the token LF is the line      *)
(* terminator, so that writing lines to disk (concatenation) and reading   *)
(* them back (splitting after every LF) are real conversions.              *)
(***************************************************************************)
EXTENDS Integers, Sequences, FiniteSets, TLC

\* ------------------------------------------------------------------ bounds
NumLocs == 2      \* number of configured Locations
MaxMtime == 2     \* modification times of the initial files are 1..MaxMtime
MaxSize == 2      \* sizes of the initial whole-file-synced files are 1..MaxSize
MaxPasses == 2    \* consecutive runs of the program over the same Locations
MaxLines == 3     \* lines of a document handed to the section functions

\* ------------------------------------------------------------------ text
LF == "LF"        \* "\n"
SP == "SP"        \* " "
HeaderTokens == {"[Recent]", "[RECENT]", "[RecentFX]", "[Theme]"}
WhiteTokens == {LF, SP}

\* str.lower() on the tokens of the model
LowerTok(t) ==
    CASE t = "[Recent]" -> "[recent]"
      [] t = "[RECENT]" -> "[recent]"
      [] t = "[RecentFX]" -> "[recentfx]"
      [] t = "[Theme]" -> "[theme]"
      [] OTHER -> t

\* f'[{section_name.lower()}]'
HeaderLower(name) ==
    CASE name = "Recent" -> "[recent]"
      [] name = "RecentFX" -> "[recentfx]"
      [] OTHER -> "[theme]"

RECURSIVE Join(_)
\* ''.join(lines), f.writelines(lines)
Join(lines) == IF lines = <<>> THEN <<>> ELSE Head(lines) \o Join(Tail(lines))

\* index of the first LF of a non-empty text, or its length
FirstBreak(t) ==
    IF \E i \in 1..Len(t) : t[i] = LF
    THEN CHOOSE i \in 1..Len(t) : t[i] = LF /\ \A j \in 1..(i - 1) : t[j] # LF
    ELSE Len(t)

RECURSIVE ReadLines(_)
\* f.readlines(): every line keeps its terminator; the last may have none
ReadLines(t) ==
    IF t = <<>> THEN <<>>
    ELSE <<SubSeq(t, 1, FirstBreak(t))>> \o ReadLines(SubSeq(t, FirstBreak(t) + 1, Len(t)))

\* content.splitlines(keepends=True)
SplitLines(t) == ReadLines(t)

RECURSIVE LStrip(_)
LStrip(l) == IF l # <<>> /\ Head(l) \in WhiteTokens THEN LStrip(Tail(l)) ELSE l

RECURSIVE RStrip(_)
RStrip(l) ==
    IF l # <<>> /\ l[Len(l)] \in WhiteTokens THEN RStrip(SubSeq(l, 1, Len(l) - 1)) ELSE l

\* line.strip()
Strip(l) == RStrip(LStrip(l))

\* line.strip().lower() == f'[{section_name.lower()}]'
IsHeader(l, name) == Len(Strip(l)) = 1 /\ LowerTok(Strip(l)[1]) = HeaderLower(name)

\* line.startswith('[')
StartsWithBracket(l) == l # <<>> /\ l[1] \in HeaderTokens

RECURSIVE GetSectionLoop(_, _, _, _, _)
\* the for loop of get_section from line idx on: the section lines collected
GetSectionLoop(lines, name, idx, inSection, acc) ==
    IF idx > Len(lines) THEN acc
    ELSE IF IsHeader(lines[idx], name)
         THEN GetSectionLoop(lines, name, idx + 1, TRUE, <<lines[idx]>>)
         ELSE IF inSection
              THEN IF StartsWithBracket(lines[idx])
                   THEN acc
                   ELSE GetSectionLoop(lines, name, idx + 1, TRUE, Append(acc, lines[idx]))
              ELSE GetSectionLoop(lines, name, idx + 1, FALSE, acc)

\* ReaperIni.get_section: the section as one string, '' if there is none
GetSection(lines, name) == Join(GetSectionLoop(lines, name, 1, FALSE, <<>>))

RECURSIVE SectionBounds(_, _, _, _, _)
\* the for loop of overwrite_section: <<start_idx, end_idx>>, 1-based, 0 for None
SectionBounds(lines, name, idx, start, inSection) ==
    IF idx > Len(lines) THEN <<start, 0>>
    ELSE IF IsHeader(lines[idx], name)
         THEN SectionBounds(lines, name, idx + 1, idx, TRUE)
         ELSE IF inSection /\ StartsWithBracket(lines[idx])
              THEN <<start, idx>>
              ELSE SectionBounds(lines, name, idx + 1, start, inSection)

\* ReaperIni.overwrite_section: the new self.lines
OverwriteSection(lines, name, content) ==
    LET b == SectionBounds(lines, name, 1, 0, FALSE)
        start == b[1]
        end == IF b[1] # 0 /\ b[2] = 0 THEN Len(lines) + 1 ELSE b[2]
        contentLines == SplitLines(content)
    IN  IF start # 0
        THEN SubSeq(lines, 1, start - 1) \o contentLines \o SubSeq(lines, end, Len(lines))
        ELSE IF lines = <<>> \/ lines[Len(lines)][Len(lines[Len(lines)])] = LF
             THEN lines \o contentLines
             ELSE Append(lines, <<LF>>) \o contentLines

\* ------------------------------------------------------------------ configuration
Loc == 1..NumLocs                      \* COMPARE_PATHS, in enumeration order
IniFile == "REAPER.ini"
RootFile == "reaper-fxtags.ini"
SubFile == "presets/lead.fxp"
File == {IniFile, RootFile, SubFile}
ROOT_FILES == <<IniFile, RootFile>>    \* the allowlist: REAPER.ini and one of the other six
SUB_FOLDERS == <<"", "presets">>       \* the root and one of the seven subfolders
REAPER_INI_SECTIONS == <<"Recent", "RecentFX">>

\* fname.lower()
LowerName(f) == IF f = IniFile THEN "reaper.ini" ELSE f

\* the folder a logical file of the model lives in
FolderOf(f) == IF f = SubFile THEN "presets" ELSE ""

\* ------------------------------------------------------------------ filesystem
VARIABLES disk,        \* files: metadata of every copy; text: REAPER.ini contents;
                       \* dirs: existing <<Location, folder>>; clock: the time of the next write
          testMode,    \* TEST_MODE
          faults,      \* whether the environment raises I/O errors
          pc,          \* the phase the running pass is at
          pass,        \* number of the running pass
          snap,        \* the disk when the running pass started
          writes,      \* <<file, source Location, target Location>> written in this pass
          simulated,   \* the same, logged by a dry run instead of written
          mkdirs,      \* <<Location, folder>> created in this pass
          prompts,     \* the questions asked in this pass, with their answers
          ret,         \* what sync_file_versions returned in this pass, per file
          anyChanges,  \* any_changes of the interactive phase
          errs,        \* whether an exception was raised in this pass
          prev         \* summary of the previous pass

\* the section functions applied to two documents
VARIABLES docA, docB, docOut, mpc, msec

passVars == <<disk, testMode, faults, pc, pass, snap, writes, simulated, mkdirs, prompts,
              ret, anyChanges, errs, prev>>
mergeVars == <<docA, docB, docOut, mpc, msec>>
vars == <<passVars, mergeVars>>

Absent == [exists |-> FALSE, size |-> 0, mtime |-> 0, ctime |-> 0]

\* get_file_properties
Props(d, f, l) == d.files[f][l]

\* os.path.exists(target_path) / os.path.isfile(fpath)
Exists(d, f, l) == d.files[f][l].exists

RECURSIVE CollectFrom(_, _, _)
\* the loop over paths of collect_files_in_folder for one relative path, from Location l on
CollectFrom(d, f, l) ==
    IF l > NumLocs THEN <<>>
    ELSE (IF <<l, FolderOf(f)>> \in d.dirs /\ Exists(d, f, l)
          THEN <<[loc |-> l, props |-> Props(d, f, l)]>>
          ELSE <<>>) \o CollectFrom(d, f, l + 1)

\* collect_files_in_folder(...)[f]: the copies of f, in Location enumeration order
Versions(d, f) == CollectFrom(d, f, 1)

RECURSIVE InsertDesc(_, _)
\* v goes behind every element whose mtime is not smaller
InsertDesc(v, s) ==
    IF s = <<>> THEN <<v>>
    ELSE IF Head(s).props.mtime >= v.props.mtime
         THEN <<Head(s)>> \o InsertDesc(v, Tail(s))
         ELSE <<v>> \o s

RECURSIVE StableSortDesc(_)
\* by mtime, greatest first; elements of equal mtime keep their order
StableSortDesc(vs) ==
    IF vs = <<>> THEN <<>>
    ELSE InsertDesc(vs[Len(vs)], StableSortDesc(SubSeq(vs, 1, Len(vs) - 1)))

RECURSIVE StableSortAsc(_)
\* by mtime, smallest first; elements of equal mtime keep their order
StableSortAsc(vs) ==
    IF vs = <<>> THEN <<>>
    ELSE LET rest == StableSortAsc(Tail(vs))
             k == Cardinality({i \in 1..Len(rest) : rest[i].props.mtime < Head(vs).props.mtime})
         IN  SubSeq(rest, 1, k) \o <<Head(vs)>> \o SubSeq(rest, k + 1, Len(rest))

\* versions.sort(key=lambda x: x[1]['mtime']), the reverse=True left out
SortVersionsAscending(vs) == StableSortAsc(vs)

\* versions.sort(key=lambda x: x[1]['mtime'], reverse=True)
SortVersions(vs) == StableSortDesc(vs)

\* ------------------------------------------------------------------ writes
Op(kind, f, src, dst, text, sim) ==
    [op |-> kind, f |-> f, src |-> src, dst |-> dst, text |-> text, sim |-> sim]

\* shutil.copy: the data without the source's times
CopyFileNoStat(d, f, src, dst) ==
    [d EXCEPT !.files[f][dst] = [exists |-> TRUE,
                                 size |-> d.files[f][src].size,
                                 mtime |-> d.clock,
                                 ctime |-> IF @.exists THEN @.ctime ELSE d.clock],
              !.clock = @ + 1]

\* shutil.copy2(src, dst): data, size and modification time of the source; the target's
\* creation time stays if it existed (st_ctime on the Windows paths of COMPARE_PATHS)
CopyFile(d, f, src, dst) ==
    [d EXCEPT !.files[f][dst] = [exists |-> TRUE,
                                 size |-> d.files[f][src].size,
                                 mtime |-> d.files[f][src].mtime,
                                 ctime |-> IF @.exists THEN @.ctime ELSE d.clock],
              !.clock = @ + 1]

\* open(self.filepath, 'w') ... f.writelines(self.lines)
WriteText(d, l, text) ==
    [d EXCEPT !.files[IniFile][l] = [exists |-> TRUE, size |-> Len(text),
                                     mtime |-> d.clock, ctime |-> @.ctime],
              !.text[l] = text,
              !.clock = @ + 1]

\* os.makedirs(os.path.dirname(target_path), exist_ok=True)
MakeDirs(d, l, folder) == [d EXCEPT !.dirs = @ \cup {<<l, folder>>}]

\* one step of a plan; a step a dry run only logs leaves the disk alone
Apply(d, o) ==
    IF o.sim THEN d
    ELSE CASE o.op = "mkdir" -> MakeDirs(d, o.dst, FolderOf(o.f))
           [] o.op = "copy" -> CopyFile(d, o.f, o.src, o.dst)
           [] OTHER -> WriteText(d, o.dst, o.text)

RECURSIVE RunOps(_, _, _)
\* the first n steps of plan p
RunOps(d, p, n) == IF n = 0 THEN d ELSE Apply(RunOps(d, p, n - 1), p[n])

\* shutil.copy2 raises SameFileError when source and target are one file
SelfCopy(o) == o.op = "copy" /\ ~o.sim /\ o.src = o.dst

\* the steps of p that can run before one of them must raise
MaxOk(p) ==
    IF \E i \in 1..Len(p) : SelfCopy(p[i])
    THEN (CHOOSE i \in 1..Len(p) : SelfCopy(p[i]) /\ \A j \in 1..(i - 1) : ~SelfCopy(p[j])) - 1
    ELSE Len(p)

\* how many steps of p run: all that can, or fewer when the environment raises an I/O error
\* in a step that touches the disk
Outcomes(p) ==
    IF faults
    THEN {n \in 0..MaxOk(p) : n = MaxOk(p) \/ ~p[n + 1].sim}
    ELSE {MaxOk(p)}

Written(p, n) == {<<p[i].f, p[i].src, p[i].dst>> : i \in {j \in 1..n : p[j].op # "mkdir" /\ ~p[j].sim}}
Simulated(p, n) == {<<p[i].f, p[i].src, p[i].dst>> : i \in {j \in 1..n : p[j].op # "mkdir" /\ p[j].sim}}
DirsMade(d, p, n) == {<<p[i].dst, FolderOf(p[i].f)>> : i \in {j \in 1..n : p[j].op = "mkdir"}} \ d.dirs

\* ------------------------------------------------------------------ automatic root-file phase
RECURSIVE PropagateRoot(_, _, _, _)
\* lines 211-216: for path in paths, copy the only copy where the target does not exist
PropagateRoot(d, f, src, l) ==
    IF l > NumLocs THEN <<>>
    ELSE (IF ~Exists(d, f, l)
          THEN <<Op("mkdir", f, src, l, <<>>, FALSE), Op("copy", f, src, l, <<>>, FALSE)>>
          ELSE <<>>) \o PropagateRoot(d, f, src, l + 1)

\* lines 223-224: the properties that decide a replacement
Differs(a, b) == a.size # b.size \/ a.mtime # b.mtime

RECURSIVE ReplaceOlder(_, _, _)
\* lines 220-226: for old in versions[1:], from position i on
ReplaceOlder(f, sorted, i) ==
    IF i > Len(sorted) THEN <<>>
    ELSE (IF sorted[1].loc # sorted[i].loc /\ Differs(sorted[1].props, sorted[i].props)
          THEN <<Op("copy", f, sorted[1].loc, sorted[i].loc, <<>>, FALSE)>>
          ELSE <<>>) \o ReplaceOlder(f, sorted, i + 1)

RECURSIVE ReplaceAlways(_, _, _)
\* for old in versions[1:] without the comparison of the properties
ReplaceAlways(f, sorted, i) ==
    IF i > Len(sorted) THEN <<>>
    ELSE <<Op("copy", f, sorted[1].loc, sorted[i].loc, <<>>, FALSE)>>
         \o ReplaceAlways(f, sorted, i + 1)

\* the loop body replacing every older copy, equal or not
PlanRootAlways(d, f) ==
    LET vs == Versions(d, f)
    IN  IF vs = <<>> THEN <<>>
        ELSE IF Len(vs) < 2 THEN PropagateRoot(d, f, vs[1].loc, 1)
        ELSE ReplaceAlways(f, SortVersions(vs), 2)

\* the loop body without the branch for a file only one Location holds
PlanRootNoPropagate(d, f) ==
    LET vs == Versions(d, f)
    IN  IF Len(vs) < 2 THEN <<>> ELSE ReplaceOlder(f, SortVersions(vs), 2)

\* the body of the loop of auto_update_root_files for one file name
PlanRoot(d, f) ==
    LET vs == Versions(d, f)
    IN  IF vs = <<>> THEN <<>>
        ELSE IF Len(vs) < 2 THEN PropagateRoot(d, f, vs[1].loc, 1)
        ELSE ReplaceOlder(f, SortVersions(vs), 2)

RECURSIVE AutoOps(_, _)
\* auto_update_root_files: for fname in root_files, from the i-th on
AutoOps(d, i) ==
    IF i > Len(ROOT_FILES) THEN <<>>
    ELSE LET f == ROOT_FILES[i]
             p == IF LowerName(f) = "reaper.ini" THEN <<>> ELSE PlanRoot(d, f)
         IN  p \o AutoOps(RunOps(d, p, Len(p)), i + 1)

\* ------------------------------------------------------------------ section-merge phase
RECURSIVE MergeOps(_, _, _, _, _, _)
\* update_reaper_ini_sections: for section in sections, from the i-th on; toLines is to_ini.lines
MergeOps(fromLines, toLines, newest, old, i, tm) ==
    IF i > Len(REAPER_INI_SECTIONS) THEN <<>>
    ELSE LET content == GetSection(fromLines, REAPER_INI_SECTIONS[i])
         IN  IF content = <<>> THEN MergeOps(fromLines, toLines, newest, old, i + 1, tm)
             ELSE IF tm
                  THEN <<Op("write", IniFile, newest, old, <<>>, TRUE)>>
                       \o MergeOps(fromLines, toLines, newest, old, i + 1, tm)
                  ELSE LET new == OverwriteSection(toLines, REAPER_INI_SECTIONS[i], content)
                       IN  <<Op("write", IniFile, newest, old, Join(new), FALSE)>>
                           \o MergeOps(fromLines, new, newest, old, i + 1, tm)

RECURSIVE MergeOlder(_, _, _, _)
\* lines 238-240: for old in versions[1:], from position i on
MergeOlder(d, sorted, i, tm) ==
    IF i > Len(sorted) THEN <<>>
    ELSE (IF sorted[1].loc # sorted[i].loc
          THEN MergeOps(ReadLines(d.text[sorted[1].loc]), ReadLines(d.text[sorted[i].loc]),
                        sorted[1].loc, sorted[i].loc, 1, tm)
          ELSE <<>>) \o MergeOlder(d, sorted, i + 1, tm)

\* auto_update_reaper_ini_sections; "reaper.ini" names REAPER.ini on the case-insensitive
\* file systems of COMPARE_PATHS
IniPlan(d, tm) ==
    LET vs == Versions(d, IniFile)
    IN  IF Len(vs) < 2 THEN <<>> ELSE MergeOlder(d, SortVersions(vs), 2, tm)

\* ------------------------------------------------------------------ interactive phase
Answers == {"y", "Y", "n"}
\* resp.lower()
LowerAns(a) == IF a = "Y" THEN "y" ELSE a

ChoiceRange == (0 - NumLocs - 1)..(NumLocs + 1)
Choices == {ToString(k) : k \in ChoiceRange} \cup {"abc"}
\* int(choice) does not raise ValueError
IsNumeric(c) == \E k \in ChoiceRange : ToString(k) = c
\* int(choice)
IntOf(c) == CHOOSE k \in ChoiceRange : ToString(k) = c

Prompt(kind, f, l, menu, ans) == [kind |-> kind, f |-> f, loc |-> l, menu |-> menu, ans |-> ans]

RECURSIVE PropagateSub(_, _, _, _, _, _)
\* lines 143-155: for path in paths, ask and copy the only copy where the target does not exist
PropagateSub(d, f, src, l, answers, tm) ==
    IF l > NumLocs THEN <<>>
    ELSE (IF ~Exists(d, f, l) /\ LowerAns(answers[l]) = "y"
          THEN <<Op("mkdir", f, src, l, <<>>, FALSE), Op("copy", f, src, l, <<>>, tm)>>
          ELSE <<>>) \o PropagateSub(d, f, src, l + 1, answers, tm)

RECURSIVE KeepOps(_, _, _, _, _)
\* lines 173-175: for idx in 0..N-1, from idx on: every idx that is not keep_idx is written
KeepOps(f, sorted, keepIdx, idx, tm) ==
    IF idx > Len(sorted) - 1 THEN <<>>
    ELSE (IF idx # keepIdx
          THEN <<Op("copy", f,
                    sorted[(IF keepIdx < 0 THEN Len(sorted) + keepIdx ELSE keepIdx) + 1].loc,
                    sorted[idx + 1].loc, <<>>, tm)>>
          ELSE <<>>) \o KeepOps(f, sorted, keepIdx, idx + 1, tm)

\* versions[keep_idx] does not raise IndexError
IndexOk(n, keepIdx) == 0 - n <= keepIdx /\ keepIdx <= n - 1

MenuOf(sorted) == [i \in 1..Len(sorted) |-> sorted[i].loc]

\* sync_file_versions for one file: the case it takes, the writes it attempts in order, the
\* questions it asks, and whether an exception it raises is caught (lines 170-179)
SyncFile(d, f, answers, choice, tm) ==
    LET vs == Versions(d, f)
        sorted == SortVersions(vs)
    IN  IF Len(vs) < 2
        THEN [case |-> "new",
              ops |-> PropagateSub(d, f, vs[1].loc, 1, answers, tm),
              asks |-> {Prompt("copy", f, l, <<>>, answers[l]) : l \in {k \in Loc : ~Exists(d, f, k)}},
              caught |-> FALSE]
        ELSE IF \A i \in 1..Len(vs) : ~Differs(vs[i].props, vs[1].props)
        THEN [case |-> "same", ops |-> <<>>, asks |-> {}, caught |-> FALSE]
        ELSE IF IsNumeric(choice) /\ IndexOk(Len(vs), IntOf(choice) - 1)
        THEN [case |-> "keep",
              ops |-> KeepOps(f, sorted, IntOf(choice) - 1, 0, tm),
              asks |-> {Prompt("keep", f, 0, MenuOf(sorted), choice)},
              caught |-> TRUE]
        ELSE [case |-> "invalid", ops |-> <<>>,
              asks |-> {Prompt("keep", f, 0, MenuOf(sorted), choice)},
              caught |-> TRUE]

\* ------------------------------------------------------------------ initial states
\* REAPER.ini documents of the initial states: the [Recent] section in the middle, the
\* [Recent] section last and without a final newline, and no configured section at all
IniDocs ==
    { <<"[Recent]", LF, "a.rpp", LF, "[Theme]", LF, "b.rpp", LF>>,
      <<"[Theme]", LF, "a.rpp", LF, "[RECENT]", LF, "b.rpp">>,
      <<"[Theme]", LF, "a.rpp", LF>> }

\* the copies of a whole-file-synced file: present in the Locations P, with any sizes and
\* modification times; Locations are populated at different times, so the creation time of
\* an initial copy is that of its Location
PlainCopies(P) ==
    {[l \in Loc |-> IF l \in P
                    THEN [exists |-> TRUE, size |-> sz[l], mtime |-> mt[l], ctime |-> l]
                    ELSE Absent] :
        sz \in [P -> 1..MaxSize], mt \in [P -> 1..MaxMtime]}

\* the copies of REAPER.ini with the texts t, an empty text for no copy
IniCopies(t, mt) ==
    [l \in Loc |-> IF t[l] = <<>> THEN Absent
                   ELSE [exists |-> TRUE, size |-> Len(t[l]), mtime |-> mt[l], ctime |-> l]]

EmptyFiles == [f \in File |-> [l \in Loc |-> Absent]]
\* the logical file f is the only one disk d has copies of
HoldsOnly(d, f) ==
    /\ \E l \in Loc : d.files[f][l].exists
    /\ \A g \in File \ {f}, l \in Loc : ~d.files[g][l].exists
EmptyText == [l \in Loc |-> <<>>]
Dirs(D) == {<<l, "">> : l \in Loc} \cup {<<l, "presets">> : l \in D}

\* a document every Location holds
SharedDoc == <<"[Recent]", LF, "a.rpp", LF, "[Theme]", LF, "b.rpp", LF>>

\* the disk with the copies c of the logical file f and nothing else; E are the Locations
\* that have the subfolder without holding the subfolder file
DiskOf(f, c, t, E) ==
    [files |-> [EmptyFiles EXCEPT ![f] = c],
     text |-> t,
     dirs |-> IF f = SubFile THEN Dirs({l \in Loc : c[l].exists} \cup E) ELSE Dirs(Loc),
     clock |-> MaxMtime + 1]

\* the disks that hold the copies of one logical file, in any state of divergence
OneFileDisks ==
    UNION {{DiskOf(RootFile, c, EmptyText, {}) : c \in PlainCopies(P)} : P \in SUBSET Loc}
    \cup
    UNION {{DiskOf(SubFile, c, EmptyText, E) : c \in PlainCopies(P), E \in SUBSET (Loc \ P)} :
           P \in SUBSET Loc}
    \cup
    {DiskOf(IniFile, IniCopies(t, mt), t, {}) :
        t \in [Loc -> IniDocs \cup {<<>>}], mt \in [Loc -> 1..MaxMtime]}

\* the logical files that may lie beside f, already in sync
Beside(f) ==
    CASE f = RootFile -> {IniFile}
      [] f = IniFile -> {SubFile}
      [] OTHER -> {}

\* d with a second logical file added that every Location holds in one and the same state
WithInSync(d, g) ==
    [d EXCEPT !.files[g] = [l \in Loc |-> [exists |-> TRUE,
                                           size |-> IF g = IniFile THEN Len(SharedDoc) ELSE 1,
                                           mtime |-> 1, ctime |-> l]],
              !.text = IF g = IniFile THEN [l \in Loc |-> SharedDoc] ELSE @,
              !.dirs = IF g = SubFile THEN Dirs(Loc) ELSE @]

\* the disks of the initial states: the Locations exist and hold the copies of one logical
\* file in any state, and possibly a second logical file that is in sync (the loops of the
\* three phases treat every logical file on its own)
InitDisks ==
    OneFileDisks
    \cup
    UNION {{WithInSync(d, g) : d \in {e \in OneFileDisks : HoldsOnly(e, f)}, g \in Beside(f)} :
           f \in File}

NoPrev == [clean |-> FALSE, acted |-> FALSE]

InitPass(flt) ==
    /\ disk \in InitDisks
    /\ testMode \in BOOLEAN
    /\ faults = flt
    /\ pc = "auto"
    /\ pass = 1
    /\ snap = disk
    /\ writes = {}
    /\ simulated = {}
    /\ mkdirs = {}
    /\ prompts = {}
    /\ ret = "none"
    /\ anyChanges = FALSE
    /\ errs = FALSE
    /\ prev = NoPrev

MergeIdle ==
    /\ docA = <<>>
    /\ docB = <<>>
    /\ docOut = <<>>
    /\ mpc = "off"
    /\ msec = "Recent"

Init == InitPass(FALSE) /\ MergeIdle

InitFault == InitPass(TRUE) /\ MergeIdle

\* ------------------------------------------------------------------ the pass
\* how a phase with plan p ends: the number of steps run, or -1 when the stat or the read of
\* a file the phase looks at fails
Ends(p, looks) == Outcomes(p) \cup (IF faults /\ looks THEN {0 - 1} ELSE {})
Ran(n) == IF n < 0 THEN 0 ELSE n

\* auto_update_root_files(COMPARE_PATHS, ROOT_FILES); an exception ends the program
AutoRootPhase ==
    /\ pc = "auto"
    /\ LET p == AutoOps(disk, 1)
       IN  \E n \in Ends(p, Versions(disk, RootFile) # <<>>) :
             /\ disk' = RunOps(disk, p, Ran(n))
             /\ writes' = writes \cup Written(p, Ran(n))
             /\ simulated' = simulated \cup Simulated(p, Ran(n))
             /\ mkdirs' = mkdirs \cup DirsMade(disk, p, Ran(n))
             /\ errs' = (errs \/ n < Len(p))
             /\ pc' = IF n < Len(p) THEN "aborted" ELSE "ini"
    /\ UNCHANGED <<testMode, faults, pass, snap, prompts, ret, anyChanges, prev, mergeVars>>

\* auto_update_reaper_ini_sections(COMPARE_PATHS, REAPER_INI_SECTIONS)
IniPhase ==
    /\ pc = "ini"
    /\ LET p == IniPlan(disk, testMode)
       IN  \E n \in Ends(p, Versions(disk, IniFile) # <<>>) :
             /\ disk' = RunOps(disk, p, Ran(n))
             /\ writes' = writes \cup Written(p, Ran(n))
             /\ simulated' = simulated \cup Simulated(p, Ran(n))
             /\ errs' = (errs \/ n < Len(p))
             /\ pc' = IF n < Len(p) THEN "aborted" ELSE "interactive"
    /\ UNCHANGED <<testMode, faults, pass, snap, mkdirs, prompts, ret, anyChanges, prev,
                   mergeVars>>

\* the answers the operator is not asked for are fixed
AnswerSets(d, f) ==
    IF Len(Versions(d, f)) = 1
    THEN {a \in [Loc -> Answers] : \A l \in Loc : Exists(d, f, l) => a[l] = "n"}
    ELSE {[l \in Loc |-> "n"]}

ChoiceSets(d, f) ==
    IF Len(Versions(d, f)) >= 2 /\ \E i \in 1..Len(Versions(d, f)) :
                                      Differs(Versions(d, f)[i].props, Versions(d, f)[1].props)
    THEN Choices ELSE {"abc"}

\* the questions asked before the step that failed, all of them if none did
Asked(r, n) ==
    IF n >= Len(r.ops) THEN r.asks
    ELSE {q \in r.asks : q.kind = "keep" \/ (n >= 0 /\ q.loc <= r.ops[n + 1].dst)}

\* the files of the folders the interactive phase scans: folder == "" is skipped (line 248)
ScannedFiles ==
    {f \in File : \E i \in 1..Len(SUB_FOLDERS) : SUB_FOLDERS[i] # "" /\ FolderOf(f) = SUB_FOLDERS[i]}

\* compare_and_sync_with_confirmation(SUB_FOLDERS, COMPARE_PATHS, ...) and the rest of main;
\* the scanned folders of the model hold one logical file
InteractivePhase ==
    /\ pc = "interactive"
    /\ \E f \in ScannedFiles :
         IF Versions(disk, f) = <<>>
         THEN /\ pc' = "done"
              /\ UNCHANGED <<disk, writes, simulated, mkdirs, prompts, ret, anyChanges, errs>>
         ELSE \E answers \in AnswerSets(disk, f), choice \in ChoiceSets(disk, f) :
                LET r == SyncFile(disk, f, answers, choice, testMode)
                    p == r.ops
                IN  \E n \in Ends(p, TRUE) :
                      LET raised == n < Len(p) \/ r.case = "invalid"
                          changed == IF r.case = "same" THEN FALSE
                                     ELSE IF r.caught THEN ~raised ELSE TRUE
                          dies == n < 0 \/ (raised /\ ~r.caught)
                      IN  /\ disk' = RunOps(disk, p, Ran(n))
                          /\ writes' = writes \cup Written(p, Ran(n))
                          /\ simulated' = simulated \cup Simulated(p, Ran(n))
                          /\ mkdirs' = mkdirs \cup DirsMade(disk, p, Ran(n))
                          /\ prompts' = prompts \cup (IF n < 0 THEN {} ELSE Asked(r, n))
                          /\ errs' = (errs \/ raised \/ n < 0)
                          /\ ret' = IF dies THEN "none" ELSE IF changed THEN "true" ELSE "false"
                          /\ anyChanges' = (anyChanges \/ (~dies /\ changed))
                          /\ pc' = IF dies THEN "aborted" ELSE "done"
    /\ UNCHANGED <<testMode, faults, pass, snap, prev, mergeVars>>

\* what the previous pass was: a live pass to its end without an exception, every copy
\* question answered y and every version question answered with an index of the list
PassClean ==
    /\ pc = "done" /\ ~testMode /\ ~errs
    /\ \A q \in prompts :
         IF q.kind = "copy" THEN LowerAns(q.ans) = "y"
         ELSE IsNumeric(q.ans) /\ IntOf(q.ans) \in 1..Len(q.menu)

\* the program is run again over the same Locations, nothing else having touched them
NextPass ==
    /\ pc \in {"done", "aborted"}
    /\ pass < MaxPasses
    /\ pass' = pass + 1
    /\ pc' = "auto"
    /\ testMode' \in BOOLEAN
    /\ snap' = disk
    /\ writes' = {}
    /\ simulated' = {}
    /\ mkdirs' = {}
    /\ prompts' = {}
    /\ ret' = "none"
    /\ anyChanges' = FALSE
    /\ errs' = FALSE
    /\ prev' = [clean |-> PassClean, acted |-> \E w \in writes : w[1] # IniFile]
    /\ UNCHANGED <<disk, faults, mergeVars>>

\* ------------------------------------------------------------------ the section functions
\* the lines documents are made of, each with its terminator
DocLines ==
    {<<"[Recent]", LF>>, <<"[RECENT]", LF>>, <<"[Theme]", LF>>, <<"a.rpp", LF>>, <<"b.rpp", LF>>,
     <<SP, "[Theme]", LF>>}

\* the number of lines of ls that are the header of section name
Headers(ls, name) == Cardinality({i \in 1..Len(ls) : IsHeader(ls[i], name)})

\* documents of at most MaxLines lines in which no header occurs twice
LineSeqs ==
    {ls \in UNION {[1..n -> DocLines] : n \in 0..MaxLines} :
        \A name \in {"Recent", "Theme"} : Headers(ls, name) <= 1}

\* the text of a document, with or without the terminator of its last line
Docs ==
    {Join(ls) : ls \in LineSeqs} \cup
    {SubSeq(Join(ls), 1, Len(Join(ls)) - 1) : ls \in LineSeqs \ {<<>>}}

\* the pass is not running
PassIdle ==
    /\ disk = [files |-> EmptyFiles, text |-> EmptyText, dirs |-> Dirs(Loc),
               clock |-> MaxMtime + 1]
    /\ testMode = FALSE
    /\ faults = FALSE
    /\ pc = "off"
    /\ pass = 1
    /\ snap = disk
    /\ writes = {}
    /\ simulated = {}
    /\ mkdirs = {}
    /\ prompts = {}
    /\ ret = "none"
    /\ anyChanges = FALSE
    /\ errs = FALSE
    /\ prev = NoPrev

InitMerge ==
    /\ PassIdle
    /\ docA \in Docs
    /\ docB \in Docs
    /\ docOut = <<>>
    /\ mpc = "loaded"
    /\ msec = "Recent"

\* lines 189-195 on from_ini = ReaperIni(A), to_ini = ReaperIni(B): the section is found and
\* overwritten in B, and B is written back
MergeSection ==
    /\ mpc = "loaded"
    /\ GetSection(ReadLines(docA), msec) # <<>>
    /\ docOut' = Join(OverwriteSection(ReadLines(docB), msec, GetSection(ReadLines(docA), msec)))
    /\ mpc' = "merged"
    /\ UNCHANGED <<passVars, docA, docB, msec>>

\* lines 196-197: A has no such section
NoSection ==
    /\ mpc = "loaded"
    /\ GetSection(ReadLines(docA), msec) = <<>>
    /\ docOut' = docB
    /\ mpc' = "skipped"
    /\ UNCHANGED <<passVars, docA, docB, msec>>

NextMerge == MergeSection \/ NoSection

SpecMerge == InitMerge /\ [][NextMerge]_vars

\* ------------------------------------------------------------------ the program
Next == AutoRootPhase \/ IniPhase \/ InteractivePhase \/ NextPass

Spec == Init /\ [][Next]_vars

SpecFault == InitFault /\ [][Next]_vars

\* ------------------------------------------------------------------ claims
\* a line without its terminator
Content(l) == IF l # <<>> /\ l[Len(l)] = LF THEN SubSeq(l, 1, Len(l) - 1) ELSE l
Contents(ls) == [i \in 1..Len(ls) |-> Content(ls[i])]

\* the extent of section name in the lines ls: <<first line, line behind the last>>, or
\* <<0, 0>> when ls has no such section
Extent(ls, name) ==
    IF \E i \in 1..Len(ls) : IsHeader(ls[i], name)
    THEN LET s == CHOOSE i \in 1..Len(ls) : IsHeader(ls[i], name)
             after == {j \in (s + 1)..Len(ls) : StartsWithBracket(ls[j])}
         IN  <<s, IF after = {} THEN Len(ls) + 1
                  ELSE CHOOSE j \in after : \A k \in after : j <= k>>
    ELSE <<0, 0>>

SectionLines(ls, name) == SubSeq(ls, Extent(ls, name)[1], Extent(ls, name)[2] - 1)

\* B with section name replaced by that of A, or with it appended when B has none
MergedLines(A, B, name) ==
    IF Extent(B, name)[1] # 0
    THEN SubSeq(B, 1, Extent(B, name)[1] - 1) \o SectionLines(A, name)
         \o SubSeq(B, Extent(B, name)[2], Len(B))
    ELSE B \o SectionLines(A, name)

\* C4: after section S of document A is merged into document B and B is written back and
\* read again, the lines of B outside S are unchanged and in order, B's section S is A's
\* section S, and no other section of A has come into B
C4_SectionMergeCorrect ==
    mpc = "merged" =>
        LET A == ReadLines(docA)
            B == ReadLines(docB)
            B2 == ReadLines(docOut)
        IN  /\ Contents(B2) = Contents(MergedLines(A, B, msec))
            /\ Contents(SectionLines(B2, msec)) = Contents(SectionLines(A, msec))
            /\ \A other \in {"Theme", "RecentFX"} :
                 Headers(B, other) = 0 => Headers(B2, other) = 0

\* the Locations that hold a copy of f on disk d
HasAt(d, f) == {l \in Loc : Exists(d, f, l)}

\* the copies of f on disk d all have one size and one modification time
InSync(d, f) == \A l1, l2 \in HasAt(d, f) : ~Differs(d.files[f][l1], d.files[f][l2])

\* the writes of this pass to copies of f
WritesTo(f) == {w \in writes : w[1] = f}

\* the operator said y when asked whether to copy f to Location l
SaidYes(f, l) ==
    \E q \in prompts : q.kind = "copy" /\ q.f = f /\ q.loc = l /\ LowerAns(q.ans) = "y"

\* the answer to a version question is an index of the list shown
ValidIndex(q) == IsNumeric(q.ans) /\ IntOf(q.ans) \in 1..Len(q.menu)

C2_Quiescence ==
    /\ \A f \in File :
         Cardinality(HasAt(snap, f)) >= 2 /\ InSync(snap, f) => WritesTo(f) = {}
    /\ \A w \in writes \cup simulated :
         w[1] = IniFile => Differs(snap.files[IniFile][w[3]], snap.files[IniFile][w[2]])

\* C3: a dry run creates, overwrites or modifies no file and no directory
C3_DryRunNoMutation ==
    testMode =>
        /\ disk.files = snap.files
        /\ disk.text = snap.text
        /\ disk.dirs = snap.dirs

\* C5: after an answer to the version question that is no integer in 1..N, no copy of the
\* file is written, the file is reported unchanged and the pass goes on
C5_InvalidChoiceNoOp ==
    \A q \in prompts :
        q.kind = "keep" /\ ~ValidIndex(q) =>
            /\ WritesTo(q.f) = {}
            /\ disk.files[q.f] = snap.files[q.f]
            /\ ret = "false"
            /\ pc = "done"

\* C6: no error on one file ends the pass early
C6_PassNeverAborts == pc # "aborted"

\* C7: for a root allowlist file with two or more copies, every automatic overwrite comes
\* from one copy of the greatest modification time, that copy is not written, the target
\* differed from it in size or modification time, and a copy that did not is left as it was
C7_AutoReplaceOnlyDiffering ==
    pc \in {"ini", "interactive", "done"} /\ Cardinality(HasAt(snap, RootFile)) >= 2 =>
        /\ \A w \in WritesTo(RootFile) :
             /\ \A l \in HasAt(snap, RootFile) :
                  snap.files[RootFile][l].mtime <= snap.files[RootFile][w[2]].mtime
             /\ \A w2 \in WritesTo(RootFile) : w2[2] = w[2] /\ w2[3] # w[2]
             /\ Differs(snap.files[RootFile][w[3]], snap.files[RootFile][w[2]])
        /\ \A l \in Loc :
             (\A w \in WritesTo(RootFile) : w[3] # l)
                 => disk.files[RootFile][l] = snap.files[RootFile][l]
        /\ \A l \in HasAt(snap, RootFile) :
             (\A k \in HasAt(snap, RootFile) :
                  snap.files[RootFile][k].mtime <= snap.files[RootFile][l].mtime)
             /\ (\A k \in HasAt(snap, RootFile) : k < l =>
                  snap.files[RootFile][k].mtime < snap.files[RootFile][l].mtime)
                 => \A t \in HasAt(snap, RootFile) :
                        ~Differs(snap.files[RootFile][t], snap.files[RootFile][l])
                            => disk.files[RootFile][t] = snap.files[RootFile][t]

C7_Witness ==
    /\ pc = "ini"
    /\ \E l1, l2 \in HasAt(snap, RootFile) :
         /\ l1 # l2
         /\ ~Differs(snap.files[RootFile][l1], snap.files[RootFile][l2])
         /\ snap.files[RootFile][l1].ctime # snap.files[RootFile][l2].ctime
         /\ disk.files[RootFile][l2] = snap.files[RootFile][l2]

\* what every propagate, replace, overwrite or merge of this pass did or, in a dry run,
\* would have done
Acted == writes \cup simulated

\* C8: the result of a pass is true exactly when some action of one of the three phases
\* was executed or, in a dry run, would have been
C8_ChangedIffActed == pc = "done" => (anyChanges <=> Acted # {})

\* C9: the copies of a subfolder file that differ are offered newest first, equal
\* modification times in Location order; after the answer k in 1..N of a live run every
\* other copy is overwritten with the k-th and the k-th is not written
C9_InteractiveResolution ==
    /\ pc = "done" /\ Cardinality(HasAt(snap, SubFile)) >= 2 /\ ~InSync(snap, SubFile)
           => \E q \in prompts : q.kind = "keep" /\ q.f = SubFile
    /\ \A q \in prompts : q.kind = "keep" =>
         LET n == Len(q.menu)
             old == snap.files[q.f]
         IN  /\ n = Cardinality(HasAt(snap, q.f))
             /\ {q.menu[i] : i \in 1..n} = HasAt(snap, q.f)
             /\ \A i, j \in 1..n : i < j =>
                  \/ old[q.menu[i]].mtime > old[q.menu[j]].mtime
                  \/ old[q.menu[i]].mtime = old[q.menu[j]].mtime /\ q.menu[i] < q.menu[j]
             /\ ValidIndex(q) /\ ~testMode =>
                  LET k == q.menu[IntOf(q.ans)]
                  IN  /\ WritesTo(q.f) = {<<q.f, k, l>> : l \in HasAt(snap, q.f) \ {k}}
                      /\ \A l \in HasAt(snap, q.f) \ {k} :
                           ~Differs(disk.files[q.f][l], old[k])
                      /\ disk.files[q.f][k] = old[k]
                      /\ ret = "true"

C9_Witness ==
    /\ pc = "done" /\ ~testMode
    /\ \E q \in prompts :
         /\ q.kind = "keep" /\ ValidIndex(q) /\ IntOf(q.ans) = 2
         /\ snap.files[q.f][q.menu[1]].mtime = snap.files[q.f][q.menu[2]].mtime
         /\ <<q.f, q.menu[2], q.menu[1]>> \in writes

\* C10: the pass after a live pass without errors, in which every copy question was
\* answered y and every version question with an index of its list, writes no root
\* allowlist file but REAPER.ini and no subfolder file, asks nothing and reports no change
C10_SecondPassQuiet ==
    prev.clean =>
        /\ \A w \in Acted : w[1] = IniFile
        /\ mkdirs = {}
        /\ prompts = {}
        /\ ret # "true"
        /\ ~anyChanges
        /\ \A f \in File \ {IniFile} : disk.files[f] = snap.files[f]

C10_Witness == prev.clean /\ prev.acted /\ pc = "done" /\ HasAt(disk, SubFile) # {}

====
